---- MODULE Spec2Model ----
(***************************************************************************)
(* Model of src/main.py (Ollama API T00l): the request dispatcher          *)
(* call_ollama_api, the streaming generation loop of generate_text, the    *)
(* lifecycle wrappers and the menu loop of main.                           *)
(*                                                                         *)
(* Text is a sequence of units (a unit is one character or one lexical     *)
(* token of a JSON document), so that concatenation is \o, strip() and     *)
(* json.loads() are computed, and "" is <<>>.                              *)
(*                                                                         *)
(* Each menu operation is one action that runs the whole function and      *)
(* leaves in op, args, confirm, calls, req, resp, result and out what the  *)
(* operation was given, did and printed; control is then at the top of the *)
(* menu loop (pc = "loop").  ShowMenu is the next iteration of the loop:   *)
(* the locals of the finished operation are gone.  generate_text alone     *)
(* takes several steps, one per line read from the response.               *)
(***************************************************************************)
EXTENDS Integers, Sequences, FiniteSets, TLC

(* ------------------------------------------------------------------ *)
(* Bounds of the model                                                  *)
(* ------------------------------------------------------------------ *)

\* Longest NDJSON line stream a generation response carries.
MaxLines == 3

(* ------------------------------------------------------------------ *)
(* Python values                                                        *)
(* ------------------------------------------------------------------ *)

\* A value held under a key of a dict (or no value: t = "absent").
\* t: the Python type; b: a bool's value; n: an int's value or a list's
\* length; s: a str's text.
Absent == [t |-> "absent", b |-> FALSE, n |-> 0, s |-> <<>>]
NoneS == [t |-> "none", b |-> FALSE, n |-> 0, s |-> <<>>]
BoolS(x) == [t |-> "bool", b |-> x, n |-> 0, s |-> <<>>]
IntS(k) == [t |-> "int", b |-> FALSE, n |-> k, s |-> <<>>]
StrS(cs) == [t |-> "str", b |-> FALSE, n |-> 0, s |-> cs]
\* a list of k dicts
ListS(k) == [t |-> "list", b |-> FALSE, n |-> k, s |-> <<>>]

\* The keys a dict of the model can hold.
KeyNames == {"response", "done", "models", "error"}
NoFields == [k \in KeyNames |-> Absent]

\* A Python value: a scalar or list (f = NoFields) or a dict with fields f.
Val(sc) == [t |-> sc.t, b |-> sc.b, n |-> sc.n, s |-> sc.s, f |-> NoFields]
DictV(f) == [t |-> "dict", b |-> FALSE, n |-> 0, s |-> <<>>, f |-> f]
PyNone == Val(NoneS)
PyTrue == Val(BoolS(TRUE))
PyFalse == Val(BoolS(FALSE))
PyStr(cs) == Val(StrS(cs))

\* Python truth value of a scalar or list (bool(x)).
TruthyS(x) ==
    CASE x.t = "bool" -> x.b
      [] x.t = "int" -> x.n # 0
      [] x.t = "str" -> x.s # <<>>
      [] x.t = "list" -> x.n # 0
      [] OTHER -> FALSE

\* "key in d" for a dict d.
HasKey(v, k) == v.t = "dict" /\ v.f[k].t # "absent"

\* Python truth value of a value: a dict is true iff it has a key.
Truthy(v) ==
    IF v.t = "dict" THEN \E k \in KeyNames : HasKey(v, k) ELSE TruthyS(v)

(* ------------------------------------------------------------------ *)
(* str.strip()                                                          *)
(* ------------------------------------------------------------------ *)

IsSpace(c) == c = " "

Strip_none(cs) == cs

RECURSIVE LStrip(_)
LStrip(cs) ==
    IF cs # <<>> /\ IsSpace(Head(cs)) THEN LStrip(Tail(cs)) ELSE cs

RECURSIVE RStrip(_)
RStrip(cs) ==
    IF cs # <<>> /\ IsSpace(cs[Len(cs)])
    THEN RStrip(SubSeq(cs, 1, Len(cs) - 1))
    ELSE cs

Strip(cs) == RStrip(LStrip(cs))

(* ------------------------------------------------------------------ *)
(* json.loads / response.json()                                         *)
(* ------------------------------------------------------------------ *)

Q == "\""
Digits == {"0", "1", "5"}
DigitValue(d) == CASE d = "0" -> 0 [] d = "1" -> 1 [] OTHER -> 5

\* The unit at position i of toks, or an end marker past the end.
Tok(toks, i) == IF i \in 1..Len(toks) THEN toks[i] ELSE "<eof>"

\* The position of the first quote at or after position i (0: none).
RECURSIVE NextQuote(_, _)
NextQuote(toks, i) ==
    IF i > Len(toks) THEN 0
    ELSE IF toks[i] = Q THEN i
    ELSE NextQuote(toks, i + 1)

\* The position where the non-object value starting at i ends (0: no value
\* starts there): a literal, a number, a string, or a list of empty dicts.
ValueEnd(toks, i) ==
    CASE Tok(toks, i) \in {"null", "true", "false"} \cup Digits -> i
      [] Tok(toks, i) = Q -> NextQuote(toks, i + 1)
      [] Tok(toks, i) = "[" /\ Tok(toks, i + 1) = "]" -> i + 1
      [] Tok(toks, i) = "[" /\ Tok(toks, i + 1) = "{" /\ Tok(toks, i + 2) = "}"
           /\ Tok(toks, i + 3) = "]" -> i + 3
      [] OTHER -> 0

\* The value spelled by units i..j, which ValueEnd accepted.
ValueOf(toks, i, j) ==
    CASE toks[i] = "null" -> NoneS
      [] toks[i] = "true" -> BoolS(TRUE)
      [] toks[i] = "false" -> BoolS(FALSE)
      [] toks[i] \in Digits -> IntS(DigitValue(toks[i]))
      [] toks[i] = Q -> StrS(SubSeq(toks, i + 1, j - 1))
      [] OTHER -> ListS(IF j = i + 1 THEN 0 ELSE 1)

DecodeError == [ok |-> FALSE, v |-> PyNone]

\* The members of an object from position i on: "key" : value , ... }
\* A repeated key keeps its last value, as json.loads does.
RECURSIVE Members(_, _, _)
Members(toks, i, f) ==
    LET e == ValueEnd(toks, i + 4) IN
    IF /\ Tok(toks, i) = Q
       /\ Tok(toks, i + 1) \in KeyNames
       /\ Tok(toks, i + 2) = Q
       /\ Tok(toks, i + 3) = ":"
       /\ e # 0
    THEN LET g == [f EXCEPT ![toks[i + 1]] = ValueOf(toks, i + 4, e)] IN
         CASE Tok(toks, e + 1) = "}" /\ e + 1 = Len(toks) ->
                [ok |-> TRUE, v |-> DictV(g)]
           [] Tok(toks, e + 1) = "," -> Members(toks, e + 2, g)
           [] OTHER -> DecodeError
    ELSE DecodeError

\* json.loads(text): ok = FALSE models json.JSONDecodeError / ValueError.
Loads(toks) ==
    CASE toks = <<>> -> DecodeError
      [] toks = <<"{", "}">> -> [ok |-> TRUE, v |-> DictV(NoFields)]
      [] Tok(toks, 1) = "{" -> Members(toks, 2, NoFields)
      [] OTHER ->
           LET e == ValueEnd(toks, 1) IN
           IF e # 0 /\ e = Len(toks)
           THEN [ok |-> TRUE, v |-> Val(ValueOf(toks, 1, e))]
           ELSE DecodeError

(* ------------------------------------------------------------------ *)
(* Console output                                                       *)
(* ------------------------------------------------------------------ *)

\* One thing printed: kind is the panel title ("INFO", "ERROR", "PANEL") or
\* "PRINT" for a bare print; msg names the message; code is the number the
\* message carries (a status code, a count); text is the text it carries.
Panel(kind, msg, code, text) ==
    [kind |-> kind, msg |-> msg, code |-> code, text |-> text]
print_info(msg) == Panel("INFO", msg, 0, <<>>)
print_error(msg) == Panel("ERROR", msg, 0, <<>>)
print_error_code(msg, code) == Panel("ERROR", msg, code, <<>>)

(* ------------------------------------------------------------------ *)
(* The server and the network                                           *)
(* ------------------------------------------------------------------ *)

Statuses == {200, 201, 204, 404, 500}

Obj1(key, valueToks) == <<"{", Q, key, Q, ":">> \o valueToks \o <<"}">>
Obj2(k1, v1, k2, v2) ==
    <<"{", Q, k1, Q, ":">> \o v1 \o <<",", Q, k2, Q, ":">> \o v2 \o <<"}">>

\* Response bodies: empty, JSON scalars, text that is not JSON, lists, objects.
Bodies ==
    { <<>>, <<"null">>, <<"true">>, <<"false">>, <<Q, Q>>, <<"5">>,
      <<"o", "k">>, <<"[", "]">>, <<"[", "{", "}", "]">>, <<"{", "}">>,
      Obj1("models", <<"[", "]">>), Obj1("models", <<"[", "{", "}", "]">>),
      Obj1("models", <<"5">>), Obj1("error", <<Q, "x", Q>>), <<"models">> }

\* What a request meets: a transport failure (requests raises a
\* RequestException) or an HTTP response.
TransportFailure == [kind |-> "transport", status |-> 0, body |-> <<>>]
HttpResponse(status, body) == [kind |-> "http", status |-> status, body |-> body]
Responses ==
    {TransportFailure} \cup {HttpResponse(st, bd) : st \in Statuses, bd \in Bodies}
NoResp == [kind |-> "none", status |-> 0, body |-> <<>>]

Request(method, url, body) == [method |-> method, url |-> url, body |-> body]
NoReq == Request("", <<>>, <<>>)

(* ------------------------------------------------------------------ *)
(* call_ollama_api                                                      *)
(* ------------------------------------------------------------------ *)

\* The HTTP method the dispatcher uses for the method it is given.
MethodUsed(method) ==
    IF method = "POST" THEN "POST" ELSE IF method = "DELETE" THEN "DELETE" ELSE "GET"

api_endpoint(url, endpoint) == url \o <<"/api/">> \o <<endpoint>>

IsSuccessStatus_any2xx(code) == code \in 200..299
IsSuccessStatus(code) == code \in {200, 204}

SuccessValue_parse204(r) ==
    IF Loads(r.body).ok THEN Loads(r.body).v ELSE PyStr(r.body)
SuccessValue_noFallback(r) ==
    IF r.status = 204 THEN PyTrue
    ELSE IF Loads(r.body).ok THEN Loads(r.body).v ELSE PyNone
\* The value returned on the success path: True for 204, else the parsed
\* JSON body, else the body's text.
SuccessValue(r) ==
    IF r.status = 204 THEN PyTrue
    ELSE IF Loads(r.body).ok THEN Loads(r.body).v ELSE PyStr(r.body)

TransportDiagnostic_asHttp == print_error_code("request_failed_status", 0)
TransportDiagnostic == print_error("network_request_failed")

\* call_ollama_api(url, endpoint, method, json_data) meeting r:
\* ret is the value returned, out what it printed, req the one request issued.
call_ollama_api(url, endpoint, method, json_data, r) ==
    LET rq == Request(MethodUsed(method), api_endpoint(url, endpoint),
                      IF MethodUsed(method) = "GET" THEN <<>> ELSE json_data)
    IN  IF r.kind = "transport"
        THEN [ret |-> PyNone, out |-> <<TransportDiagnostic>>, req |-> rq]
        ELSE IF IsSuccessStatus(r.status)
        THEN [ret |-> SuccessValue(r), out |-> <<>>, req |-> rq]
        ELSE [ret |-> PyNone,
              out |-> <<print_error_code("request_failed_status", r.status)>>,
              req |-> rq]

\* Python's  x is True  and  x == "".
IsTrue(v) == v.t = "bool" /\ v.b
EqEmptyStr(v) == v.t = "str" /\ v.s = <<>>

(* ------------------------------------------------------------------ *)
(* Inputs of the operator and of the server                             *)
(* ------------------------------------------------------------------ *)

\* What the operator types at a name, prompt or digest prompt.
Names == { <<>>, <<" ">>, <<"m">>, <<" ", "m", " ">> }
Prompts == { <<>>, <<" ">>, <<"p">> }
\* What the operator types at the URL prompt.
UrlInputs ==
    { <<>>, <<" ">>, <<"/">>, <<"h">>, <<"h", "/">>, <<"h", "/", "/">>,
      <<" ", "h", "/", " ">> }

\* The lines of a generation response.
Lines ==
    { <<>>,
      <<"not", " ", "json">>,
      Obj1("response", <<Q, "H", "e", "l", Q>>),
      Obj1("response", <<Q, "l", "o", Q>>),
      Obj1("done", <<"true">>),
      Obj2("response", <<Q, "!", Q>>, "done", <<"true">>),
      Obj2("response", <<Q, " ", Q>>, "done", <<"false">>),
      Obj1("response", <<"5">>),
      <<"5">> }

RECURSIVE SeqsUpTo(_, _)
SeqsUpTo(S, n) ==
    IF n = 0 THEN {<<>>}
    ELSE LET shorter == SeqsUpTo(S, n - 1)
         IN  shorter \cup {Append(q, x) : q \in shorter, x \in S}

\* The line streams of a 200 response, and of a response of another status.
Streams == SeqsUpTo(Lines, MaxLines)
ErrorStreams == SeqsUpTo(Lines, 1)

\* What POST /api/generate meets: a transport failure, or a status and the
\* lines that follow it.
GenResponses ==
    {[kind |-> "transport", status |-> 0, lines |-> <<>>]}
    \cup {[kind |-> "http", status |-> 200, lines |-> ls] : ls \in Streams}
    \cup {[kind |-> "http", status |-> st, lines |-> ls] :
             st \in Statuses \ {200}, ls \in ErrorStreams}

\* What HEAD /api/blobs/{digest} meets (a HEAD response has no body).
HeadResponses ==
    {TransportFailure} \cup {HttpResponse(st, <<>>) : st \in Statuses}

(* ------------------------------------------------------------------ *)
(* State                                                                *)
(* ------------------------------------------------------------------ *)

VARIABLES
    pc,             \* "start"; "loop": at the top of the menu loop of main;
                    \* "menu": at its choice prompt; "reading": inside the
                    \* read loop of generate_text; "exited": main returned;
                    \* "crashed": an exception no handler catches ended it;
                    \* "interrupted": a KeyboardInterrupt ended it
    ollama_url,     \* main: the base URL of the session
    op,             \* the operation chosen last at the menu
    args,           \* what the operator typed at its prompts, in order
    confirm,        \* the answer to its Confirm.ask ("none": not asked)
    calls,          \* the number of network requests it has issued
    req,            \* the last request it issued
    resp,           \* what that request met
    result,         \* the value call_ollama_api returned to it
    out,            \* what it has printed, in order
    stream,         \* generate_text: the lines of the response not yet read
    consumed,       \* generate_text: the lines read so far, in order
    generated_text, \* generate_text: the text buffer
    complete_data,  \* generate_text: the event log
    earlier         \* history: a trace (the first unit) of the text the
                    \* operation before this one had built, kept from the
                    \* choice prompt until a generation call's first step

vars == <<pc, ollama_url, op, args, confirm, calls, req, resp, result, out,
          stream, consumed, generated_text, complete_data, earlier>>

NoResult == Val(Absent)

Init ==
    /\ pc = "start"
    /\ ollama_url = <<>>
    /\ op = "none"
    /\ args = <<>>
    /\ confirm = "none"
    /\ calls = 0
    /\ req = NoReq
    /\ resp = NoResp
    /\ result = NoResult
    /\ out = <<>>
    /\ stream = <<>>
    /\ consumed = <<>>
    /\ generated_text = <<>>
    /\ complete_data = <<>>
    /\ earlier = <<>>

\* The locals of generate_text do not exist outside a generation call.
NoGeneration ==
    /\ stream' = <<>>
    /\ consumed' = <<>>
    /\ generated_text' = <<>>
    /\ complete_data' = <<>>

\* An operation that ends without issuing a request.
Local(o, a, c, ou, nextpc) ==
    /\ op' = o
    /\ args' = a
    /\ confirm' = c
    /\ calls' = 0
    /\ req' = NoReq
    /\ resp' = NoResp
    /\ result' = NoResult
    /\ out' = ou
    /\ pc' = nextpc
    /\ NoGeneration
    /\ earlier' = <<>>
    /\ UNCHANGED ollama_url

\* An operation that made the call d == call_ollama_api(...), which met r.
Called(o, a, c, d, r, ou, nextpc) ==
    /\ op' = o
    /\ args' = a
    /\ confirm' = c
    /\ calls' = 1
    /\ req' = d.req
    /\ resp' = r
    /\ result' = d.ret
    /\ out' = d.out \o ou
    /\ pc' = nextpc
    /\ NoGeneration
    /\ earlier' = <<>>
    /\ UNCHANGED ollama_url

(* ------------------------------------------------------------------ *)
(* main: the URL prompt                                                 *)
(* ------------------------------------------------------------------ *)

\* main, lines 233-235: strip, then drop one trailing "/".
NormalizeUrl(raw) ==
    LET u == Strip(raw) IN
    IF u # <<>> /\ u[Len(u)] = "/" THEN SubSeq(u, 1, Len(u) - 1) ELSE u

Start ==
    /\ pc = "start"
    /\ \E raw \in UrlInputs :
         LET u == NormalizeUrl(raw) IN
         /\ ollama_url' = u
         /\ args' = <<raw>>
         /\ out' = IF u = <<>>
                   THEN <<print_info("disclaimer"), print_error("url_empty")>>
                   ELSE <<print_info("disclaimer")>>
         /\ pc' = IF u = <<>> THEN "exited" ELSE "loop"
         /\ UNCHANGED <<op, confirm, calls, req, resp, result, stream, consumed,
                        generated_text, complete_data, earlier>>

(* ------------------------------------------------------------------ *)
(* list_models, show_model_info                                         *)
(* ------------------------------------------------------------------ *)

Contains(cs, unit) == \E i \in 1..Len(cs) : cs[i] = unit

\* list_models, lines 57-88, on the value call_ollama_api returned:
\* what it prints, and whether it raises (TypeError / AttributeError).
ListOutcome(v) ==
    IF ~Truthy(v) THEN [raised |-> FALSE, out |-> <<print_error("list_failed")>>]
    ELSE CASE v.t \in {"bool", "int"} -> [raised |-> TRUE, out |-> <<>>]
           [] v.t = "str" ->
                IF Contains(v.s, "models")
                THEN [raised |-> TRUE, out |-> <<>>]
                ELSE [raised |-> FALSE, out |-> <<print_error("list_failed")>>]
           [] v.t = "dict" /\ HasKey(v, "models") ->
                LET models == v.f["models"] IN
                IF ~TruthyS(models)
                THEN [raised |-> FALSE, out |-> <<print_info("no_models")>>]
                ELSE IF models.t = "list"
                THEN [raised |-> FALSE,
                      out |-> <<print_info("models_available"),
                                Panel("PANEL", "model_list", models.n, <<>>)>>]
                ELSE [raised |-> TRUE, out |-> <<>>]
           [] OTHER -> [raised |-> FALSE, out |-> <<print_error("list_failed")>>]

ListModels ==
    /\ pc = "menu"
    /\ \E r \in Responses :
         LET d == call_ollama_api(ollama_url, "tags", "GET", <<>>, r)
             o == ListOutcome(d.ret)
         IN  Called("list", <<>>, "none", d, r, o.out,
                    IF o.raised THEN "crashed" ELSE "loop")

\* show_model_info, lines 108-114: result.items() needs a dict.
ShowOutcome(v) ==
    IF ~Truthy(v) THEN [raised |-> FALSE, out |-> <<print_error("show_failed")>>]
    ELSE IF v.t = "dict"
    THEN [raised |-> FALSE, out |-> <<Panel("PANEL", "model_info", 0, <<>>)>>]
    ELSE [raised |-> TRUE, out |-> <<>>]

ShowModelInfo ==
    /\ pc = "menu"
    /\ \E raw \in Names :
         LET model_name == Strip(raw) IN
         IF model_name = <<>>
         THEN Local("show", <<raw>>, "none", <<print_error("name_empty")>>, "loop")
         ELSE \E r \in Responses :
                LET d == call_ollama_api(ollama_url, "show", "POST",
                                         << <<"model", model_name>> >>, r)
                    o == ShowOutcome(d.ret)
                IN  Called("show", <<raw>>, "none", d, r, o.out,
                           IF o.raised THEN "crashed" ELSE "loop")

(* ------------------------------------------------------------------ *)
(* delete_model, pull_model, push_model, copy_model                     *)
(* ------------------------------------------------------------------ *)

\* delete_model, lines 169-172
DeleteReport(v) ==
    IF EqEmptyStr(v) THEN print_info("delete_ok") ELSE print_error("delete_failed")

\* Confirm.ask answers
Answers == {"yes", "no"}

Confirmed_always(ans) == TRUE
\* delete_model, lines 163-164: the answer of Confirm.ask
Confirmed(ans) == ans = "yes"

DeleteModel ==
    /\ pc = "menu"
    /\ \E raw \in Names :
         LET model_name == Strip(raw) IN
         IF model_name = <<>>
         THEN Local("delete", <<raw>>, "none", <<print_error("name_empty")>>, "loop")
         ELSE \E ans \in Answers :
                IF ~Confirmed(ans)
                THEN Local("delete", <<raw>>, ans, <<print_info("cancelled")>>, "loop")
                ELSE \E r \in Responses :
                       LET d == call_ollama_api(ollama_url, "delete", "DELETE",
                                                << <<"model", model_name>> >>, r)
                       IN  Called("delete", <<raw>>, ans, d, r,
                                  <<DeleteReport(d.ret)>>, "loop")

TrueReport_truthy(v, okMsg, failMsg) ==
    IF Truthy(v) THEN print_info(okMsg) ELSE print_error(failMsg)
\* pull_model 182-185, push_model 195-198, copy_model 222-225:
\* success iff  result is True
TrueReport(v, okMsg, failMsg) ==
    IF IsTrue(v) THEN print_info(okMsg) ELSE print_error(failMsg)

StreamFlag(ans) == IF ans = "yes" THEN <<"true">> ELSE <<"false">>

PullModel ==
    /\ pc = "menu"
    /\ \E raw \in Names :
         LET model_name == Strip(raw) IN
         IF model_name = <<>>
         THEN Local("pull", <<raw>>, "none", <<print_error("name_empty")>>, "loop")
         ELSE \E ans \in Answers, r \in Responses :
                LET d == call_ollama_api(ollama_url, "pull", "POST",
                           << <<"model", model_name>>, <<"stream", StreamFlag(ans)>> >>, r)
                IN  Called("pull", <<raw>>, ans, d, r,
                           <<TrueReport(d.ret, "pull_ok", "pull_failed")>>, "loop")

PushModel ==
    /\ pc = "menu"
    /\ \E raw \in Names :
         LET model_name == Strip(raw) IN
         IF model_name = <<>>
         THEN Local("push", <<raw>>, "none", <<print_error("name_empty")>>, "loop")
         ELSE \E ans \in Answers, r \in Responses :
                LET d == call_ollama_api(ollama_url, "push", "POST",
                           << <<"model", model_name>>, <<"stream", StreamFlag(ans)>> >>, r)
                IN  Called("push", <<raw>>, ans, d, r,
                           <<TrueReport(d.ret, "push_ok", "push_failed")>>, "loop")

CopyModel ==
    /\ pc = "menu"
    /\ \E rawFrom \in Names, rawTo \in Names :
         LET source_model == Strip(rawFrom)
             target_model == Strip(rawTo)
         IN  IF source_model = <<>> \/ target_model = <<>>
             THEN Local("copy", <<rawFrom, rawTo>>, "none",
                        <<print_error("names_empty")>>, "loop")
             ELSE \E r \in Responses :
                    LET d == call_ollama_api(ollama_url, "copy", "POST",
                               << <<"from", source_model>>, <<"to", target_model>> >>, r)
                    IN  Called("copy", <<rawFrom, rawTo>>, "none", d, r,
                               <<TrueReport(d.ret, "copy_ok", "copy_failed")>>, "loop")

(* ------------------------------------------------------------------ *)
(* check_blob                                                           *)
(* ------------------------------------------------------------------ *)

BlobReport_any2xx(status) ==
    IF status \in 200..299 THEN print_info("blob_exists")
    ELSE IF status = 404 THEN print_error("blob_missing")
    ELSE print_error_code("blob_check_failed", status)

\* check_blob, lines 207-212
BlobReport(status) ==
    IF status = 200 THEN print_info("blob_exists")
    ELSE IF status = 404 THEN print_error("blob_missing")
    ELSE print_error_code("blob_check_failed", status)

\* requests.head is outside any try: a transport failure propagates.
CheckBlob ==
    /\ pc = "menu"
    /\ \E raw \in Names :
         LET digest == Strip(raw) IN
         IF digest = <<>>
         THEN Local("blob", <<raw>>, "none", <<print_error("digest_empty")>>, "loop")
         ELSE \E r \in HeadResponses :
                /\ op' = "blob"
                /\ args' = <<raw>>
                /\ confirm' = "none"
                /\ calls' = 1
                /\ req' = Request("HEAD", ollama_url \o <<"/api/blobs/">> \o digest, <<>>)
                /\ resp' = r
                /\ result' = NoResult
                /\ out' = IF r.kind = "transport" THEN <<>> ELSE <<BlobReport(r.status)>>
                /\ pc' = IF r.kind = "transport" THEN "crashed" ELSE "loop"
                /\ NoGeneration
                /\ earlier' = <<>>
                /\ UNCHANGED ollama_url

(* ------------------------------------------------------------------ *)
(* generate_text                                                        *)
(* ------------------------------------------------------------------ *)

AppendFragment_twice(text, event) ==
    IF HasKey(event, "response")
    THEN text \o event.f["response"].s \o event.f["response"].s
    ELSE text
\* lines 141-142:  if "response" in event: generated_text += event["response"]
AppendFragment(text, event) ==
    IF HasKey(event, "response") THEN text \o event.f["response"].s ELSE text

\* str += x raises TypeError unless x is a str.
FragmentRaises(event) ==
    HasKey(event, "response") /\ event.f["response"].t # "str"

IsDone_never(event) == FALSE
\* line 143:  event.get("done", False)
IsDone(event) ==
    TruthyS(IF HasKey(event, "done") THEN event.f["done"] ELSE BoolS(FALSE))

OnDecodeError_raise == "raise"
\* lines 145-146: the handler prints and the loop goes on
OnDecodeError == "continue"

LogEvent_replace(log, event) == <<event>>
\* line 140:  complete_data.append(event)
LogEvent(log, event) == Append(log, event)

\* One iteration of the loop body, lines 137-146, on one line:
\* the locals after it, what it printed, and how control leaves it
\* ("continue", "break", or "raise": an exception no handler catches).
ProcessLine(line, text, log) ==
    IF line = <<>>
    THEN [text |-> text, log |-> log, out |-> <<>>, ctl |-> "continue"]
    ELSE LET d == Loads(line) IN
         IF ~d.ok
         THEN [text |-> text, log |-> log,
               out |-> <<Panel("PRINT", "unparseable_event", 0, line)>>,
               ctl |-> OnDecodeError]
         ELSE IF d.v.t # "dict"
         THEN \* "response" in event / event[...] / event.get raise on a non-dict
              [text |-> text, log |-> LogEvent(log, d.v), out |-> <<>>, ctl |-> "raise"]
         ELSE IF FragmentRaises(d.v)
         THEN [text |-> text, log |-> LogEvent(log, d.v), out |-> <<>>, ctl |-> "raise"]
         ELSE [text |-> AppendFragment(text, d.v), log |-> LogEvent(log, d.v),
               out |-> <<>>,
               ctl |-> IF IsDone(d.v) THEN "break" ELSE "continue"]

Report_noStrip(text, log) ==
    << Panel("INFO", "event_log", Len(log), <<>>),
       IF text # <<>>
       THEN Panel("PANEL", "generated_text", 0, Strip(text))
       ELSE print_error("generated_text_empty") >>
\* lines 148-152: the event log, then the text or the empty-result error.
Report(text, log) ==
    << Panel("INFO", "event_log", Len(log), <<>>),
       IF Strip(text) # <<>>
       THEN Panel("PANEL", "generated_text", 0, Strip(text))
       ELSE print_error("generated_text_empty") >>

GenStatusOk_successStatus(status) == IsSuccessStatus(status)
\* line 133:  if response.status_code != 200: ... return
GenStatusOk(status) == status = 200

FreshText_keep(old) == old
\* line 129:  generated_text = ""  (whatever an earlier call built is not used)
FreshText(old) == <<>>

GenerateText ==
    /\ pc = "menu"
    /\ \E rawModel \in Names, rawPrompt \in Prompts :
         LET model_name == Strip(rawModel)
             prompt == Strip(rawPrompt)
         IN  IF model_name = <<>> \/ prompt = <<>>
             THEN Local("generate", <<rawModel, rawPrompt>>, "none",
                        <<print_error("model_or_prompt_empty")>>, "loop")
             ELSE \E r \in GenResponses :
                    /\ op' = "generate"
                    /\ args' = <<rawModel, rawPrompt>>
                    /\ confirm' = "none"
                    /\ calls' = 1
                    /\ req' = Request("POST", ollama_url \o <<"/api/generate">>,
                                      << <<"model", model_name>>, <<"prompt", prompt>> >>)
                    /\ resp' = [kind |-> r.kind, status |-> r.status, body |-> <<>>]
                    /\ result' = NoResult
                    /\ consumed' = <<>>
                    /\ generated_text' = FreshText(earlier)
                    /\ complete_data' = <<>>
                    /\ earlier' = earlier
                    /\ stream' = r.lines
                    /\ out' = CASE r.kind = "transport" -> <<print_error("request_error")>>
                                [] ~GenStatusOk(r.status) ->
                                     <<print_error_code("api_request_failed", r.status)>>
                                [] OTHER -> <<>>
                    /\ pc' = IF r.kind = "http" /\ GenStatusOk(r.status)
                             THEN "reading" ELSE "loop"
                    /\ UNCHANGED ollama_url

\* The loop reads the next line of the response.
ReadLine ==
    /\ pc = "reading"
    /\ stream # <<>>
    /\ LET line == Head(stream)
           p == ProcessLine(line, generated_text, complete_data)
       IN  /\ stream' = Tail(stream)
           /\ consumed' = Append(consumed, line)
           /\ generated_text' = p.text
           /\ complete_data' = p.log
           /\ out' = IF p.ctl = "break"
                     THEN out \o p.out \o Report(p.text, p.log)
                     ELSE out \o p.out
           /\ pc' = CASE p.ctl = "break" -> "loop"
                      [] p.ctl = "raise" -> "crashed"
                      [] OTHER -> "reading"
    /\ earlier' = <<>>
    /\ UNCHANGED <<ollama_url, op, args, confirm, calls, req, resp, result>>

\* iter_lines is exhausted: the connection ended.
EndOfStream ==
    /\ pc = "reading"
    /\ stream = <<>>
    /\ out' = out \o Report(generated_text, complete_data)
    /\ pc' = "loop"
    /\ earlier' = <<>>
    /\ UNCHANGED <<ollama_url, op, args, confirm, calls, req, resp, result,
                   stream, consumed, generated_text, complete_data>>

\* iter_lines raises a RequestException (the connection broke): line 154.
StreamBroken ==
    /\ pc = "reading"
    /\ out' = Append(out, print_error("request_error"))
    /\ pc' = "loop"
    /\ earlier' = <<>>
    /\ UNCHANGED <<ollama_url, op, args, confirm, calls, req, resp, result,
                   stream, consumed, generated_text, complete_data>>

\* The operator interrupts the read loop (Ctrl-C): KeyboardInterrupt is not a
\* RequestException, so neither line 154 nor main catches it; the with
\* statement closes the connection and the interpreter ends the process.
UserAbort ==
    /\ pc = "reading"
    /\ pc' = "interrupted"
    /\ earlier' = <<>>
    /\ UNCHANGED <<ollama_url, op, args, confirm, calls, req, resp, result, out,
                   stream, consumed, generated_text, complete_data>>

(* ------------------------------------------------------------------ *)
(* main: the menu loop                                                  *)
(* ------------------------------------------------------------------ *)

\* lines 239-250: the menu is printed and the choice is asked for; what the
\* operation before it held and printed is gone.
ShowMenu ==
    /\ pc = "loop"
    /\ op' = "none"
    /\ args' = <<>>
    /\ confirm' = "none"
    /\ calls' = 0
    /\ req' = NoReq
    /\ resp' = NoResp
    /\ result' = NoResult
    /\ out' = <<>>
    /\ pc' = "menu"
    /\ NoGeneration
    /\ earlier' = SubSeq(generated_text, 1, IF generated_text = <<>> THEN 0 ELSE 1)
    /\ UNCHANGED ollama_url

Exit ==
    /\ pc = "menu"
    /\ Local("exit", <<>>, "none", <<print_info("goodbye")>>, "exited")

InvalidChoice ==
    /\ pc = "menu"
    /\ Local("invalid", <<>>, "none", <<print_error("invalid_choice")>>, "loop")

Next ==
    \/ Start
    \/ ShowMenu
    \/ ListModels
    \/ ShowModelInfo
    \/ GenerateText
    \/ ReadLine
    \/ EndOfStream
    \/ StreamBroken
    \/ UserAbort
    \/ CopyModel
    \/ DeleteModel
    \/ PullModel
    \/ PushModel
    \/ CheckBlob
    \/ Exit
    \/ InvalidChoice

Spec == Init /\ [][Next]_vars

(* ------------------------------------------------------------------ *)
(* Vocabulary of the properties                                         *)
(* ------------------------------------------------------------------ *)

Last(q) == q[Len(q)]

LineHel == Obj1("response", <<Q, "H", "e", "l", Q>>)
LineLo == Obj1("response", <<Q, "l", "o", Q>>)
LineDone == Obj1("done", <<"true">>)
LineNotJson == <<"not", " ", "json">>
Hello == <<"H", "e", "l", "l", "o">>

\* The latest operation is a generation call whose response was read.
Generating == op = "generate" /\ calls = 1 /\ resp.kind = "http" /\ resp.status = 200

\* The concatenation, in order, of the response fragments of the events of log.
RECURSIVE Fragments(_)
Fragments(log) ==
    IF log = <<>> THEN <<>>
    ELSE LET e == Head(log) IN
         (IF e.t = "dict" /\ e.f["response"].t = "str" THEN e.f["response"].s ELSE <<>>)
         \o Fragments(Tail(log))

\* A line that is not empty and is not a JSON document.
Malformed(line) == line # <<>> /\ ~Loads(line).ok
\* A line that is a JSON document.
Decodes(line) == line # <<>> /\ Loads(line).ok

\* The documents, in order, of the lines of ls that decode.
RECURSIVE DecodedEvents(_)
DecodedEvents(ls) ==
    IF ls = <<>> THEN <<>>
    ELSE IF Decodes(Head(ls))
    THEN <<Loads(Head(ls)).v>> \o DecodedEvents(Tail(ls))
    ELSE DecodedEvents(Tail(ls))

\* An event whose done field is the boolean true.
DoneTrue(e) == e.t = "dict" /\ e.f["done"] = BoolS(TRUE)

IsWarning(p) == p.kind = "PRINT" /\ p.msg = "unparseable_event"
\* The lines the decode warnings printed so far name, in order.
WarnedLines == [i \in 1..Len(SelectSeq(out, IsWarning)) |-> SelectSeq(out, IsWarning)[i].text]

Printed(p) == \E i \in 1..Len(out) : out[i] = p

\* The first thing the latest operation printed (nothing: an empty print).
FirstOut == IF out = <<>> THEN Panel("PRINT", "", 0, <<>>) ELSE out[1]
\* call_ollama_api printed one of its diagnostics.
DiagnosticPrinted ==
    \E i \in 1..Len(out) :
       out[i].msg \in {"request_failed_status", "network_request_failed"}

\* The read loop ended and lines 148-152 reported its result.
ReportedResult == Generating /\ pc = "loop" /\ \E i \in 1..Len(out) : out[i].msg = "event_log"

(* ------------------------------------------------------------------ *)
(* C1                                                                   *)
(* ------------------------------------------------------------------ *)

\* C1: at every step of the read loop and at return, the text buffer is the
\* concatenation, in arrival order, of the response fragments of the events
\* processed so far (none skipped, reordered or duplicated); the stream
\* {"response":"Hel"}, {"response":"lo"}, {"done":true} gives the text
\* "Hello" and an event log of length 3.
C1_TextIsConcatenation ==
    /\ generated_text = Fragments(complete_data)
    /\ generated_text = Fragments(DecodedEvents(consumed))
    /\ (Generating /\ consumed = <<LineHel, LineLo, LineDone>>)
         => /\ generated_text = Hello
            /\ Len(complete_data) = 3
            /\ pc = "loop"
            /\ Printed(Panel("PANEL", "generated_text", 0, Hello))

C1_Witness ==
    /\ ReportedResult
    /\ consumed = <<LineHel, LineLo, LineDone>>
    /\ generated_text = Hello
    /\ Len(complete_data) = 3

(* ------------------------------------------------------------------ *)
(* C2                                                                   *)
(* ------------------------------------------------------------------ *)

\* C2: the read loop stops at the first decoded event whose done field is
\* true: that event is in the event log, as its last element, and its
\* fragment is in the text; no line after it is read; the loop is no longer
\* reading; and a loop that ended normally ended at such an event or at the
\* end of the stream.
C2_StopsAtFirstDone ==
    /\ \A i \in 1..Len(complete_data) :
         DoneTrue(complete_data[i]) => i = Len(complete_data) /\ pc # "reading"
    /\ \A i \in 1..Len(consumed) :
         (Decodes(consumed[i]) /\ DoneTrue(Loads(consumed[i]).v))
            => /\ i = Len(consumed)
               /\ complete_data # <<>>
               /\ Last(complete_data) = Loads(consumed[i]).v
               /\ generated_text = Fragments(DecodedEvents(consumed))
               /\ ReportedResult
    /\ ReportedResult
         => \/ stream = <<>>
            \/ complete_data # <<>> /\ DoneTrue(Last(complete_data))

\* The loop stopped at a done event that carries a fragment, lines unread.
C2_Witness ==
    /\ ReportedResult
    /\ stream # <<>>
    /\ complete_data # <<>>
    /\ DoneTrue(Last(complete_data))
    /\ Last(complete_data).f["response"] = StrS(<<"!">>)
    /\ Len(consumed) = 2

(* ------------------------------------------------------------------ *)
(* C3                                                                   *)
(* ------------------------------------------------------------------ *)

\* C3: a line that fails JSON decoding does not abort the read loop (the
\* loop neither raises nor stops at it), is recorded as a decode warning and
\* not in the event log, and the text is the concatenation of the fragments
\* of the valid events only.
C3_MalformedLineTolerated ==
    /\ WarnedLines = SelectSeq(consumed, Malformed)
    /\ complete_data = DecodedEvents(consumed)
    /\ generated_text = Fragments(DecodedEvents(consumed))
    /\ (consumed # <<>> /\ Malformed(Last(consumed)))
          => /\ pc \in {"reading", "loop", "interrupted"}
             /\ pc = "loop" =>
                  \/ stream = <<>> /\ ReportedResult
                  \/ Last(out) = print_error("request_error")

\* A malformed line between two valid events; the call returned "Hello".
C3_Witness ==
    /\ ReportedResult
    /\ consumed = <<LineHel, LineNotJson, LineLo>>
    /\ generated_text = Hello
    /\ Len(complete_data) = 2
    /\ WarnedLines = <<LineNotJson>>

(* ------------------------------------------------------------------ *)
(* C4 - C7: call_ollama_api                                             *)
(* ------------------------------------------------------------------ *)

\* The latest operation called call_ollama_api, and holds what it returned.
DispatchOps == {"list", "show", "delete", "pull", "push", "copy"}
Dispatched == op \in DispatchOps /\ calls = 1

\* The result variant a response stands for (spec 4.1): Success for 200,
\* SuccessEmpty for 204, Failure for any other status or no response.
Variant(r) ==
    IF r.kind = "http" /\ r.status = 200 THEN "Success"
    ELSE IF r.kind = "http" /\ r.status = 204 THEN "SuccessEmpty"
    ELSE "Failure"

\* What call_ollama_api returns and prints when the request of the latest
\* operation meets r instead.
Returned(r) == call_ollama_api(<<>>, "", req.method, <<>>, r).ret
Diagnosed(r) == call_ollama_api(<<>>, "", req.method, <<>>, r).out

\* C4: for every method, status 204 yields SuccessEmpty (the value True)
\* whatever the body; status 200 yields the parsed JSON body when the body is
\* valid JSON and the body's raw text when it is not.
C4_SuccessPath ==
    (Dispatched /\ resp.kind = "http")
       => /\ resp.status = 204 => result = PyTrue /\ ~DiagnosticPrinted
          /\ resp.status = 200 => ~DiagnosticPrinted
          /\ (resp.status = 200 /\ Loads(resp.body).ok) => result = Loads(resp.body).v
          /\ (resp.status = 200 /\ ~Loads(resp.body).ok) => result = PyStr(resp.body)
          /\ (resp.status = 200 /\ resp.body = <<"o", "k">>) => result = PyStr(<<"o", "k">>)
          /\ (resp.status = 200 /\ resp.body = <<>>) => result = PyStr(<<>>)
          /\ (resp.status = 200 /\ resp.body = <<Q, Q>>) => result = PyStr(<<>>)
          /\ (resp.status = 200 /\ resp.body = <<"false">>) => result = PyFalse
          /\ (resp.status = 200 /\ resp.body = Obj1("models", <<"[", "]">>))
               => result = DictV([NoFields EXCEPT !["models"] = ListS(0)])

\* A DELETE answered 204 with a body that is a JSON document.
C4_Witness ==
    /\ Dispatched
    /\ req.method = "DELETE"
    /\ resp = HttpResponse(204, Obj1("error", <<Q, "x", Q>>))
    /\ result = PyTrue

\* C5: for every status other than 200 and 204, call_ollama_api returns the
\* failure value (None), prints a diagnostic that carries the status, and
\* does not raise: control is back in the menu loop.
C5_FailureStatus ==
    (Dispatched /\ resp.kind = "http" /\ resp.status \notin {200, 204})
       => /\ result = PyNone
          /\ FirstOut = print_error_code("request_failed_status", resp.status)
          /\ pc = "loop"

\* A 2xx status that is not a success status, with a JSON body.
C5_Witness ==
    /\ Dispatched
    /\ resp = HttpResponse(201, <<"true">>)
    /\ result = PyNone

\* C6 as stated: the value returned determines the variant that occurred:
\* no response of another variant makes call_ollama_api return the same value.
C6_ValueDeterminesVariant ==
    Dispatched =>
       \A r \in Responses : Returned(r) = result => Variant(r) = Variant(resp)

\* C6 as amended: the value returned determines the variant unless it is
\* None or True. None is returned for every Failure and for a 200 response
\* whose body is null; True for every 204 and for a 200 response whose body
\* is true.
C6_VariantUpToNoneAndTrue ==
    Dispatched =>
       /\ Returned(resp) = result
       /\ \A r \in Responses :
            (Returned(r) = result /\ result \notin {PyNone, PyTrue})
               => Variant(r) = Variant(resp)
       /\ result = PyNone
            <=> \/ Variant(resp) = "Failure"
                \/ Variant(resp) = "Success" /\ resp.body = <<"null">>
       /\ result = PyTrue
            <=> \/ Variant(resp) = "SuccessEmpty"
                \/ Variant(resp) = "Success" /\ resp.body = <<"true">>

\* A 200 response with the body null: the value of a Failure.
C6_Witness ==
    /\ Dispatched
    /\ resp = HttpResponse(200, <<"null">>)
    /\ result = PyNone
    /\ \E r \in Responses : Variant(r) = "Failure" /\ Returned(r) = result

\* A response with a failing status code.
HttpFailures == {r \in Responses : r.kind = "http" /\ Variant(r) = "Failure"}

\* C7 as stated: the value returned on a transport failure differs from the
\* value returned on an HTTP-level failure.
C7_TransportValueDistinct ==
    (Dispatched /\ resp.kind = "transport")
       => \A r \in HttpFailures : Returned(r) # result

\* C7 as amended: a transport failure returns the failure value None, the
\* same value as an HTTP-level failure; only the diagnostic printed tells
\* them apart (network request failed / request failed with a status code).
C7_TransportDiagnosticDistinct ==
    (Dispatched /\ resp.kind = "transport")
       => /\ result = PyNone
          /\ FirstOut = print_error("network_request_failed")
          /\ \A r \in HttpFailures :
               /\ Returned(r) = result
               /\ Diagnosed(r) # <<FirstOut>>
               /\ Diagnosed(r) = <<print_error_code("request_failed_status", r.status)>>

C7_Witness ==
    /\ Dispatched
    /\ op = "pull"
    /\ resp.kind = "transport"
    /\ result = PyNone
    /\ pc = "loop"

(* ------------------------------------------------------------------ *)
(* C8 - C9: the lifecycle wrappers                                      *)
(* ------------------------------------------------------------------ *)

\* C8 as stated: a confirmed delete of a non-empty name reports success iff
\* the response is a 204 (SuccessEmpty) or a 200 whose payload is the empty
\* string (Success("")), and reports failure otherwise.
C8_DeleteSuccess ==
    (op = "delete" /\ calls = 1)
       => /\ Printed(print_info("delete_ok"))
               <=> \/ Variant(resp) = "SuccessEmpty"
                   \/ Variant(resp) = "Success" /\ result = PyStr(<<>>)
          /\ Printed(print_error("delete_failed")) <=> ~Printed(print_info("delete_ok"))

\* C8, what delete_model does: success is reported only for a 200 response
\* whose body is empty or the JSON empty string (Success("")), never for 204.
C8_DeleteSuccessOnlyEmptyText ==
    (op = "delete" /\ calls = 1)
       => /\ Printed(print_info("delete_ok"))
               <=> (Variant(resp) = "Success" /\ resp.body \in {<<>>, <<Q, Q>>})
          /\ Printed(print_error("delete_failed")) <=> ~Printed(print_info("delete_ok"))
          /\ confirm = "yes"
          /\ Strip(args[1]) # <<>>

TrueOps == {"copy", "pull", "push"}
OkMessage ==
    [o \in TrueOps |->
       CASE o = "copy" -> print_info("copy_ok")
         [] o = "pull" -> print_info("pull_ok")
         [] OTHER -> print_info("push_ok")]
FailMessage ==
    [o \in TrueOps |->
       CASE o = "copy" -> print_error("copy_failed")
         [] o = "pull" -> print_error("pull_failed")
         [] OTHER -> print_error("push_failed")]

\* C9 as stated: copy, pull and push report success iff the result is a
\* Success whose payload is the boolean true; every other result, SuccessEmpty
\* included, is reported as failure; one of the two is always reported.
C9_SuccessIffSuccessTrue ==
    (op \in TrueOps /\ calls = 1)
       => /\ Printed(OkMessage[op]) <=> (Variant(resp) = "Success" /\ result = PyTrue)
          /\ Printed(FailMessage[op]) <=> ~Printed(OkMessage[op])

\* C9 as amended: copy, pull and push report success iff the value
\* call_ollama_api returned is the boolean True, that is for a 200 response
\* whose body is the JSON true and for every 204 response (SuccessEmpty);
\* every Failure and every other payload is reported as failure; one of the
\* two is always reported, whatever the stream flag.
C9_SuccessIffTrueValue ==
    (op \in TrueOps /\ calls = 1)
       => /\ Printed(OkMessage[op]) <=> result = PyTrue
          /\ Printed(OkMessage[op])
               <=> \/ Variant(resp) = "SuccessEmpty"
                   \/ Variant(resp) = "Success" /\ resp.body = <<"true">>
          /\ Printed(FailMessage[op]) <=> ~Printed(OkMessage[op])
          /\ pc = "loop"

\* A streamed pull answered 200 with a truthy payload that is not true.
C9_Witness ==
    /\ op = "pull"
    /\ calls = 1
    /\ confirm = "yes"
    /\ resp = HttpResponse(200, Obj1("error", <<Q, "x", Q>>))
    /\ Printed(print_error("pull_failed"))
    /\ ~Printed(print_info("pull_ok"))

(* ------------------------------------------------------------------ *)
(* C10                                                                  *)
(* ------------------------------------------------------------------ *)

\* Text that is empty once trimmed: nothing but spaces.
Blank(cs) == \A i \in 1..Len(cs) : cs[i] = " "

\* The message each operation prints for an empty input.
ValidationMessage ==
    [o \in {"generate", "copy", "pull", "push", "delete", "show", "blob"} |->
       CASE o = "generate" -> print_error("model_or_prompt_empty")
         [] o = "copy" -> print_error("names_empty")
         [] o = "blob" -> print_error("digest_empty")
         [] OTHER -> print_error("name_empty")]

\* C10: generate with a model or prompt that is empty after trimming, copy
\* with an empty source or target, and pull, push, delete, show or blob-check
\* with an empty identifier print the validation error and nothing else, and
\* issue no network request; an operation that issued a request had no empty
\* input.
C10_ValidationBeforeNetwork ==
    op \in DOMAIN ValidationMessage
       => /\ (\E i \in 1..Len(args) : Blank(args[i]))
               => /\ calls = 0
                  /\ req = NoReq
                  /\ resp = NoResp
                  /\ out = <<ValidationMessage[op]>>
                  /\ confirm = "none"
                  /\ pc = "loop"
          /\ calls > 0 => \A i \in 1..Len(args) : ~Blank(args[i])
          /\ calls > 0 => \A i \in 1..Len(req.body) : req.body[i][2] # <<>>

\* A copy whose target is only a space.
C10_Witness ==
    /\ op = "copy"
    /\ args = << <<"m">>, <<" ">> >>
    /\ calls = 0
    /\ out = <<print_error("names_empty")>>

(* ------------------------------------------------------------------ *)
(* C11                                                                  *)
(* ------------------------------------------------------------------ *)

\* C11: no failure is fatal to the process: whatever the server or the
\* network does (any status, any body, a transport failure on any request,
\* the HEAD of check_blob included, NDJSON lines that are malformed or decode
\* to a value that is not an object, a response field that is not a string),
\* no operation ends the process with an uncaught exception.
C11_NoFailureIsFatal == pc # "crashed"

(* ------------------------------------------------------------------ *)
(* C12                                                                  *)
(* ------------------------------------------------------------------ *)

EmptyResult == print_error("generated_text_empty")
IsTextPanel(p) == p.msg = "generated_text"

\* C12: when the read loop has ended and the text buffer is empty or only
\* whitespace (the stream that is only {"done":true}, for one), the call
\* reports the empty-result condition, not a transport error and not a crash;
\* when the buffer holds a non-whitespace character the call reports the
\* generated text and never the empty-result condition.
C12_EmptyResultIffBlank ==
    /\ ReportedResult
          => /\ Blank(generated_text)
                  => /\ Last(out) = EmptyResult
                     /\ SelectSeq(out, IsTextPanel) = <<>>
             /\ ~Blank(generated_text)
                  => /\ Last(out).kind = "PANEL"
                     /\ Last(out).msg = "generated_text"
                     /\ Last(out).text # <<>>
                     /\ ~Blank(Last(out).text)
                     /\ ~Printed(EmptyResult)
             /\ ~Printed(print_error("request_error"))
    /\ (Generating /\ consumed = <<LineDone>>)
          => pc = "loop" /\ Printed(EmptyResult)

\* The stream that is only {"done":true} was read to its end.
C12_Witness ==
    /\ ReportedResult
    /\ consumed = <<LineDone>>
    /\ generated_text = <<>>
    /\ Last(out) = EmptyResult

(* ------------------------------------------------------------------ *)
(* C13                                                                  *)
(* ------------------------------------------------------------------ *)

\* C13: in a generation call whose initial response has a status other than
\* 200, the call fails with that status and consumes no further data: no
\* line of the response is read or decoded, the event log and the text buffer
\* stay empty, and neither a generated text nor the empty-result condition is
\* reported.
C13_Not200ReadsNothing ==
    (op = "generate" /\ calls = 1 /\ resp.kind = "http" /\ resp.status # 200)
       => /\ pc = "loop"
          /\ out = <<print_error_code("api_request_failed", resp.status)>>
          /\ consumed = <<>>
          /\ complete_data = <<>>
          /\ generated_text = <<>>
          /\ SelectSeq(out, IsTextPanel) = <<>>
          /\ ~Printed(EmptyResult)

\* A 204 followed by a line that would have been a fragment, left unread.
C13_Witness ==
    /\ op = "generate"
    /\ calls = 1
    /\ resp.kind = "http"
    /\ resp.status = 204
    /\ stream = <<LineHel>>
    /\ out = <<print_error_code("api_request_failed", 204)>>

(* ------------------------------------------------------------------ *)
(* C14                                                                  *)
(* ------------------------------------------------------------------ *)

\* The read loop is in the Terminated state: it ended on a done event or at
\* the end of the stream, and the text and the log it built were reported.
Terminated == ReportedResult /\ Printed(Panel("INFO", "event_log", Len(complete_data), <<>>))

\* C14: for every finite line stream the read loop reaches the Terminated
\* state: it leaves the Reading state only into Terminated (the connection
\* breaking and the operator's interrupt aside), and a stream that ends
\* without a done event terminates at its end, without error, with the text
\* and the event log accumulated so far.
C14_LoopReachesTerminated ==
    Generating
       => /\ pc \in {"reading", "loop", "interrupted"}
          /\ (pc = "loop" /\ ~Printed(print_error("request_error"))) => Terminated

(* ------------------------------------------------------------------ *)
(* C15                                                                  *)
(* ------------------------------------------------------------------ *)

\* The outcome of the HEAD existence check a status stands for (spec 4.1).
HeadOutcome(status) ==
    IF status = 200 THEN "Exists"
    ELSE IF status = 404 THEN "NotFound"
    ELSE "Failure"

\* The outcome a printed message tells the operator.
OutcomeShown(p) ==
    CASE p = print_info("blob_exists") -> "Exists"
      [] p = print_error("blob_missing") -> "NotFound"
      [] p.kind = "ERROR" /\ p.msg = "blob_check_failed" -> "Failure"
      [] OTHER -> "none"

\* C15: check_blob reports Exists for status 200, NotFound for status 404
\* and Failure with the status for every other status; the outcome of a call
\* is a function of the status the server answers with, whatever was called
\* before (so repeating the call against an unchanged server repeats the
\* outcome), and the call changes nothing the client carries to the next call.
C15_HeadCheck ==
    [][(op' = "blob" /\ calls' = 1 /\ resp'.kind = "http")
          => /\ Len(out') = 1
             /\ OutcomeShown(out'[1]) = HeadOutcome(resp'.status)
             /\ OutcomeShown(out'[1]) = "Failure" => out'[1].code = resp'.status
             /\ pc' = "loop"
             /\ req' = Request("HEAD", ollama_url \o <<"/api/blobs/">> \o Strip(args'[1]), <<>>)
             /\ ollama_url' = ollama_url
             /\ result' = NoResult
             /\ <<stream', consumed', generated_text', complete_data'>>
                   = <<<<>>, <<>>, <<>>, <<>>>>]_vars

\* A check of a digest the server does not have.
C15_Witness ==
    /\ op = "blob"
    /\ calls = 1
    /\ resp = HttpResponse(404, <<>>)
    /\ out = <<print_error("blob_missing")>>

(* ------------------------------------------------------------------ *)
(* C16                                                                  *)
(* ------------------------------------------------------------------ *)

\* C16: the read loop supports cancellation: an interrupt by the operator
\* while the loop is in the Reading state ends the generation call only (the
\* connection is closed and the partial text is not reported) and leaves the
\* client running, back at the menu, for the next call.
C16_AbortReturnsToMenu ==
    [][UserAbort
          => /\ pc' = "loop"
             /\ SelectSeq(out', IsTextPanel) = <<>>
             /\ ollama_url' = ollama_url]_vars

(* ------------------------------------------------------------------ *)
(* C17                                                                  *)
(* ------------------------------------------------------------------ *)

\* The session was refused at the URL prompt: no operation ran.
Refused == pc = "exited" /\ ollama_url = <<>> /\ op = "none" /\ calls = 0

\* C17: for every URL the operator enters (inputs ending in several slashes
\* and the input "/" included), either the session is refused before any
\* operation runs, or the base URL handed to the operations is non-empty and
\* does not end in "/", and every request URL is built from it.
C17_BaseUrlNormalized ==
    pc # "start"
       => \/ Refused
          \/ /\ ollama_url # <<>>
             /\ Last(ollama_url) # "/"
             /\ calls > 0 => SubSeq(req.url, 1, Len(ollama_url)) = ollama_url

(* ------------------------------------------------------------------ *)
(* C18                                                                  *)
(* ------------------------------------------------------------------ *)

IsPrefix(p, q) == Len(p) <= Len(q) /\ SubSeq(q, 1, Len(p)) = p

\* C18: the event log of a generation call is append-only: at every step it
\* is the sequence, in arrival order, of exactly the non-empty lines read so
\* far that decoded, the terminal event included and nothing after it; an
\* empty line is skipped without error and adds nothing to the log or the
\* text; the log at one step is a prefix of the log at every later step of
\* the call.
C18_LogAppendOnly ==
    /\ [](Generating
            => /\ complete_data = DecodedEvents(consumed)
               /\ \A i \in 1..(Len(complete_data) - 1) : ~DoneTrue(complete_data[i]))
    /\ [][pc = "reading"
            => /\ IsPrefix(complete_data, complete_data')
               /\ Len(complete_data') <= Len(complete_data) + 1
               /\ (consumed' = Append(consumed, <<>>))
                     => /\ complete_data' = complete_data
                        /\ generated_text' = generated_text
                        /\ out' = out
                        /\ pc' = "reading"]_vars

\* An empty line between two fragments was read.
C18_Witness ==
    /\ Generating
    /\ consumed = <<LineHel, <<>>, LineLo>>
    /\ Len(complete_data) = 2
    /\ complete_data = <<Loads(LineHel).v, Loads(LineLo).v>>

(* ------------------------------------------------------------------ *)
(* C19                                                                  *)
(* ------------------------------------------------------------------ *)

\* C19: no state is shared between calls: whatever the operation before it
\* did, a generation call starts with an empty event log and an empty text
\* buffer, and its log and text are at every step those of the lines of its
\* own response; the base URL is the only value carried from one call to the
\* next, and no operation changes it.
C19_NoStateSharedBetweenCalls ==
    /\ [][(pc = "menu" /\ op' = "generate" /\ calls' = 1)
            => /\ generated_text' = <<>>
               /\ complete_data' = <<>>
               /\ consumed' = <<>>
               /\ out' \in {<<>>, <<print_error("request_error")>>,
                            <<print_error_code("api_request_failed", resp'.status)>>}]_vars
    /\ [](Generating
            => /\ complete_data = DecodedEvents(consumed)
               /\ generated_text = Fragments(DecodedEvents(consumed)))
    /\ [](pc = "menu"
            => /\ <<op, args, confirm, calls, req, resp, result, out>>
                     = <<"none", <<>>, "none", 0, NoReq, NoResp, NoResult, <<>>>>
               /\ <<stream, consumed, generated_text, complete_data>>
                     = <<<<>>, <<>>, <<>>, <<>>>>)
    /\ [][pc # "start" => ollama_url' = ollama_url]_vars

\* A generation call begins right after a call that had built a text.
C19_Witness ==
    /\ Generating
    /\ pc = "reading"
    /\ earlier = <<"H">>
    /\ consumed = <<>>
    /\ stream = <<LineLo, LineDone>>
    /\ generated_text = <<>>
    /\ complete_data = <<>>

(* ------------------------------------------------------------------ *)
(* C20                                                                  *)
(* ------------------------------------------------------------------ *)

\* C20: delete_model issues its DELETE request only after the operator has
\* confirmed: a declined confirmation ends the operation as cancelled, with
\* no network request and with neither the success nor the failure message
\* of a deletion; a deletion that issued a request was confirmed.
C20_DeleteOnlyAfterConfirmation ==
    op = "delete"
       => /\ confirm = "no"
               => /\ calls = 0
                  /\ req = NoReq
                  /\ resp = NoResp
                  /\ out = <<print_info("cancelled")>>
                  /\ ~Printed(print_info("delete_ok"))
                  /\ ~Printed(print_error("delete_failed"))
                  /\ pc = "loop"
          /\ (calls > 0 \/ req # NoReq \/ resp # NoResp) => confirm = "yes"
          /\ (Printed(print_info("delete_ok")) \/ Printed(print_error("delete_failed")))
               => confirm = "yes" /\ calls = 1 /\ req.method = "DELETE"

\* A deletion of "m" that the operator declined.
C20_Witness ==
    /\ op = "delete"
    /\ args = << <<"m">> >>
    /\ confirm = "no"
    /\ calls = 0
    /\ out = <<print_info("cancelled")>>

====
